---- MODULE Spec2Model ----
(***************************************************************************)
(* Model of the web scraping projects: the shared validation layer         *)
(* (src/common/validators.py), the e-commerce page loop                    *)
(* (src/ecommerce/tracker.py), the single-page job and real-estate         *)
(* scrapers, the news aggregator with its retried fetch and its three      *)
(* concurrent source tasks (src/news/aggregator.py), main(), the runners  *)
(* and run_all of the master CLI (scrape.py), the extraction and cleaning  *)
(* helpers (src/common/utils.py) and auto_scroll (src/common/browser.py).  *)
(*                                                                         *)
(* Python strings are sequences of one-character strings.  Python values   *)
(* are tagged records: Str(s), IntVal(n) and None.  A dict is a function      *)
(* whose DOMAIN is the set of keys it holds.                               *)
(***************************************************************************)
EXTENDS Integers, Sequences, FiniteSets, TLC

VARIABLES
    \* ---- filter_valid_data(data_list, validator_func) ----
    validator_func,   \* which validator the call was given
    data_input,       \* the list as passed in (before the in-place sanitising)
    data_list,        \* the caller's list; its items are rewritten in place
    valid_data,       \* the list being returned
    fpc,              \* position of the call: "idle", "call", "returned"
    \* ---- one run of the master CLI (scrape.py) ----
    cmd,              \* args.command: "ecommerce", "jobs", "news", "realestate", "all"
    runner,           \* the runner in progress: run_ecommerce, run_jobs, ...
    exit_code,        \* the exit status of the process (-1 while it runs)
    fatal,            \* what reached main's except clauses ("-": nothing)
    started,          \* the scrape routines that were called
    ended,            \* the scrape routines that returned or raised
    failed,           \* the scrape routines that ended by raising
    pc,               \* position of the runner and of the scrape routine it called
    site,             \* the site scrape in progress: "Amazon", "Flipkart" or "-"
    max_pages,        \* EcommerceScraper.max_pages
    page_num,         \* the loop variable of the page loop
    current_url,      \* the pagination cursor
    soup,             \* the parsed page: marker text and container count
    item_idx,         \* position in the container loop, 1-based
    results,          \* EcommerceScraper.results
    seen_urls,        \* EcommerceScraper.seen_urls
    data,             \* JobScraper.data / RealEstateCrawler.data
    raised,           \* an exception is propagating out of the scrape routine
    gotos,            \* per site: how many times safe_goto was called
    stop,             \* per site: why the page loop ended ("-" while it has not)
    sleeps,           \* per site: how many inter-page delays were taken
    closes,           \* per site: how many times browser.close() ran
    nav,              \* per site: the outcome of the last page.goto ("-": none yet)
    last_item,        \* what became of the container processed last
    save_calls,       \* how many times the sink's save routine was entered
    written,          \* the rows the sink wrote to its files (<<>>: no file)
    \* ---- NewsAggregator: the three source tasks of run() ----
    max_retries,      \* config.max_retries
    tpc,              \* per source: position of its task ("-", "fetch", "done")
    requests,         \* per source: how many GET requests were made
    nlast,            \* per source: the outcome of the last request ("-": none yet)
    nresult,          \* per source: how the task ended ("-": it has not)
    served,           \* per source: the headlines served with a text and a link
    \* ---- one call of a helper of src/common/utils.py ----
    func,             \* the helper called ("-": none)
    args,             \* its arguments, by parameter name
    ret,              \* what it returned (Pending until it has)
    \* ---- one call of auto_scroll (src/common/browser.py) ----
    max_scrolls,      \* the max_scrolls argument
    spc,              \* position of the call: "idle", "for", "scroll", "height", "returned"
    scroll_i,         \* the loop variable i
    prev_height,      \* the local prev_height
    heights,          \* the heights measured so far, in order
    scrolls,          \* how many times window.scrollBy was evaluated
    scroll_raised     \* an exception left auto_scroll

filterVars == <<validator_func, data_input, data_list, valid_data, fpc>>

cliVars == <<cmd, pc, site, max_pages, page_num, current_url, soup, item_idx,
             results, seen_urls, data, raised, gotos, stop, sleeps, closes,
             nav, last_item, save_calls, written>>

mainVars == <<runner, exit_code, fatal, started, ended, failed>>

newsVars == <<max_retries, tpc, requests, nlast, nresult, served>>

utilVars == <<func, args, ret>>

scrollVars == <<max_scrolls, spc, scroll_i, prev_height, heights, scrolls,
                scroll_raised>>

helperVars == <<utilVars, scrollVars>>

\* what the steps of a scrape routine leave alone
restVars == <<filterVars, helperVars, mainVars, newsVars>>

vars == <<filterVars, cliVars, mainVars, newsVars, helperVars>>

----------------------------------------------------------------------------
(* Python values *)

None == [t |-> "none"]

Str(s) == [t |-> "str", v |-> s]

IntVal(n) == [t |-> "int", v |-> n]

True == [t |-> "bool", v |-> TRUE]

False == [t |-> "bool", v |-> FALSE]

\* isinstance(value, str)
IsStr(x) == x.t = "str"

\* bool(x) as Python's `if x` / `not x` evaluate it
Truthy(x) ==
    CASE x.t = "none" -> FALSE
      [] x.t = "str"  -> x.v # <<>>
      [] x.t = "int"  -> x.v # 0

\* data.get(field)
Get(d, field) == IF field \in DOMAIN d THEN d[field] ELSE None

----------------------------------------------------------------------------
(* Characters *)

NUL == "NUL"    \* "\x00"
SOH == "SOH"    \* "\x01", a control character other than newline and tab

\* ord(char) < 32 and char not in "\n\t"
IsControl(c) == c \in {NUL, SOH}

\* the characters str.split() and str.strip() treat as white space
IsSpace(c) == c \in {" ", "\n", "\t"}

\* url[0].isascii() and url[0].isalpha()
IsAlpha(c) == c \in {"a", "b", "c", "f", "h", "j", "n", "p", "s", "t", "x"}

\* urllib.parse.scheme_chars
IsSchemeChar(c) == IsAlpha(c) \/ c \in {"0", "1", "+", "-", "."}

----------------------------------------------------------------------------
(* src/common/validators.py *)

RECURSIVE Words(_, _, _)
\* text.split(): the maximal runs of non-space characters, in order
Words(text, cur, acc) ==
    IF text = <<>> THEN (IF cur = <<>> THEN acc ELSE Append(acc, cur))
    ELSE IF IsSpace(Head(text))
         THEN Words(Tail(text), <<>>, IF cur = <<>> THEN acc ELSE Append(acc, cur))
         ELSE Words(Tail(text), Append(cur, Head(text)), acc)

RECURSIVE JoinSpace(_)
\* " ".join(words)
JoinSpace(words) ==
    IF words = <<>> THEN <<>>
    ELSE IF Len(words) = 1 THEN Head(words)
    ELSE Head(words) \o <<" ">> \o JoinSpace(Tail(words))

sanitize_text(text) ==
    IF ~Truthy(text) THEN None
    ELSE LET no_null == SelectSeq(text.v, LAMBDA c : c # NUL)
             no_ctrl == SelectSeq(no_null, LAMBDA c : ~IsControl(c))
             joined  == JoinSpace(Words(no_ctrl, <<>>, <<>>))
         IN  IF joined # <<>> THEN Str(joined) ELSE None

RECURSIVE LStrip(_)
\* url.lstrip(_WHATWG_C0_CONTROL_OR_SPACE)
LStrip(url) ==
    IF url # <<>> /\ (IsControl(Head(url)) \/ IsSpace(Head(url)))
    THEN LStrip(Tail(url)) ELSE url

\* s.find(c) + 1: the first position of c in s, 0 when there is none
Find(s, c) ==
    IF \E i \in 1..Len(s) : s[i] = c
    THEN CHOOSE i \in 1..Len(s) : s[i] = c /\ \A k \in 1..(i - 1) : s[k] # c
    ELSE 0

\* urlparse(url): the scheme and the network location, as urlsplit finds them;
\* bad is urlsplit raising ValueError("Invalid IPv6 URL")
urlparse(url) ==
    LET result(stripped, scheme, netloc) ==
            [scheme |-> scheme, netloc |-> netloc, url |-> stripped,
             bad |-> (Find(netloc, "[") # 0) # (Find(netloc, "]") # 0)]
        upto(after, slash) ==
            IF slash = 0 THEN after ELSE SubSeq(after, 1, slash - 1)
        netloc_of(after) == upto(after, Find(after, "/"))
        split(stripped, scheme, rest) ==
            result(stripped, scheme,
                   IF Len(rest) >= 2 /\ rest[1] = "/" /\ rest[2] = "/"
                   THEN netloc_of(SubSeq(rest, 3, Len(rest))) ELSE <<>>)
        with_colon(stripped, i) ==
            IF /\ i > 1
               /\ IsAlpha(stripped[1])
               /\ \A k \in 1..(i - 1) : IsSchemeChar(stripped[k])
            THEN split(stripped, SubSeq(stripped, 1, i - 1),
                       SubSeq(stripped, i + 1, Len(stripped)))
            ELSE split(stripped, <<>>, stripped)
        parse(stripped) == with_colon(stripped, Find(stripped, ":"))
    IN  parse(SelectSeq(LStrip(url), LAMBDA c : c \notin {"\t", "\n"}))

validate_url(url) ==
    IF ~Truthy(url) THEN FALSE
    ELSE LET check(result) ==
                 IF result.bad THEN FALSE
                 ELSE result.scheme # <<>> /\ result.netloc # <<>>
         IN  check(urlparse(url.v))

validate_product_data(d) ==
    LET required_fields == {"platform", "title", "url"}
    IN  IF ~(\A field \in required_fields : field \in DOMAIN d) THEN FALSE
        ELSE IF ~Truthy(Get(d, "title")) THEN FALSE
        ELSE IF ~validate_url(Get(d, "url")) THEN FALSE
        ELSE TRUE

validate_job_data(d) ==
    LET required_fields == {"title", "company"}
    IN  IF ~(\A field \in required_fields : Truthy(Get(d, field))) THEN FALSE
        ELSE TRUE

validate_news_data(d) ==
    LET required_fields == {"source", "headline", "link"}
    IN  IF ~(\A field \in required_fields : field \in DOMAIN d) THEN FALSE
        ELSE IF ~Truthy(Get(d, "headline")) THEN FALSE
        ELSE IF ~validate_url(Get(d, "link")) THEN FALSE
        ELSE TRUE

validate_realestate_data(d) ==
    LET required_fields == {"title", "location"}
    IN  IF ~(\A field \in required_fields : Truthy(Get(d, field))) THEN FALSE
        ELSE TRUE

\* validator_func(item), the validator being passed by name
Validate(kind, item) ==
    CASE kind = "product"    -> validate_product_data(item)
      [] kind = "job"        -> validate_job_data(item)
      [] kind = "news"       -> validate_news_data(item)
      [] kind = "realestate" -> validate_realestate_data(item)

\* the inner loop of filter_valid_data: every str value of the item is
\* replaced by its sanitised form, every other value is left alone
SanitizeItem(item) ==
    [key \in DOMAIN item |->
        IF IsStr(item[key]) THEN sanitize_text(item[key]) ELSE item[key]]

\* filter_valid_data with the validation applied to the item as it was passed in
FilterLoopUnsanitized(items, valid, kind) ==
    LET Raw(v, i) == IF Validate(kind, items[i]) THEN Append(v, SanitizeItem(items[i])) ELSE v
        RECURSIVE Loop(_, _)
        Loop(v, i) == IF i > Len(items) THEN v ELSE Loop(Raw(v, i), i + 1)
    IN  [data_list  |-> [i \in 1..Len(items) |-> SanitizeItem(items[i])],
         valid_data |-> Loop(valid, 1)]

\* the loop of filter_valid_data over data_list: each item is sanitised in
\* place, then validated, and appended to valid_data when it passes
FilterLoop(items, valid, kind) ==
    LET RECURSIVE Loop(_, _, _)
        Loop(its, v, i) ==
            IF i > Len(its) THEN [data_list |-> its, valid_data |-> v]
            ELSE LET item == SanitizeItem(its[i])
                 IN  Loop([its EXCEPT ![i] = item],
                          IF Validate(kind, item) THEN Append(v, item) ELSE v,
                          i + 1)
    IN  Loop(items, valid, 1)

filter_valid_data(items, kind) == FilterLoop(items, <<>>, kind)

----------------------------------------------------------------------------
(* Inputs of the validation layer *)

MaxRecs == 2      \* longest enumerated data_list

Kinds == {"product", "job", "news", "realestate"}

Absent == [t |-> "absent"]     \* the key is not in the dict

RequiredKeys(kind) ==
    CASE kind = "product"    -> {"platform", "title", "url"}
      [] kind = "job"        -> {"title", "company"}
      [] kind = "news"       -> {"source", "headline", "link"}
      [] kind = "realestate" -> {"title", "location"}

\* the keys of the enumerated dicts: the required ones and one non-str field
KeysOf(kind) == RequiredKeys(kind) \cup (IF kind = "product" THEN {"price"} ELSE {})

TextValues == {Absent, Str(<<>>), Str(<<"a">>), Str(<<SOH>>)}

LinkValues == {Absent, Str(<<>>), Str(<<"a">>), Str(<<"h", ":", "/", "/", "a">>)}

TagValues  == {Absent, Str(<<>>), Str(<<"x">>)}

ValuesOf(key) ==
    CASE key \in {"title", "headline"} -> TextValues
      [] key \in {"url", "link"}       -> LinkValues
      [] key = "price"                 -> {IntVal(5)}
      [] OTHER                         -> TagValues

\* a dict holds the keys whose value is not Absent
AsDict(f) == [k \in {x \in DOMAIN f : f[x] # Absent} |-> f[k]]

RecordsOf(kind) ==
    {AsDict(f) : f \in {g \in [KeysOf(kind) -> TextValues \cup LinkValues \cup TagValues \cup {IntVal(5)}] :
                            \A k \in KeysOf(kind) : g[k] \in ValuesOf(k)}}

ProductRecord(platform, title, url) ==
    [platform |-> Str(platform), title |-> title, url |-> url, price |-> IntVal(5)]

GoodUrl == Str(<<"h", ":", "/", "/", "a">>)

\* ten product records: two with a blank or missing title, one with a link
\* that is no URL, seven well formed
ExampleTen ==
    LET good == ProductRecord(<<"x">>, Str(<<"a">>), GoodUrl)
    IN  << good, good,
           ProductRecord(<<"x">>, Str(<<" ", SOH>>), GoodUrl),
           good,
           [platform |-> Str(<<"x">>), url |-> GoodUrl, price |-> IntVal(5)],
           good, good,
           ProductRecord(<<"x">>, Str(<<"a">>), Str(<<"a", " ", "b">>)),
           good, good >>

InputLists(kind) ==
    UNION {[1..n -> RecordsOf(kind)] : n \in 0..MaxRecs}
        \cup (IF kind = "product" THEN {ExampleTen} ELSE {})

----------------------------------------------------------------------------
(* src/ecommerce/tracker.py: EcommerceScraper *)

Sites == {"Amazon", "Flipkart"}

\* "https://www.amazon.in" and "https://www.flipkart.com", the host cut to one letter
base_url(s) ==
    IF s = "Amazon" THEN <<"h", "t", "t", "p", "s", ":", "/", "/", "a">>
                    ELSE <<"h", "t", "t", "p", "s", ":", "/", "/", "f">>

\* f"{base_url}/s?k=..." and f"{base_url}/search?q=...", the query cut to one letter
search_url(s) == base_url(s) \o <<"/", "s">>

\* the platform argument of Product(...)
platform(s) ==
    IF s = "Amazon" THEN <<"A", "m", "a", "z", "o", "n">>
                    ELSE <<"F", "l", "i", "p", "k", "a", "r", "t">>

\* a key made of the URL alone
unique_key_untagged(s, url) == url

\* f"Amazon_{url}" and f"Flipkart_{url}"
unique_key(s, url) == platform(s) \o <<"_">> \o url

\* an exception raised by a call
Raise == [t |-> "raise"]

\* urllib.parse.urljoin(base, url) for a base without a path
urljoin(base, url) ==
    LET join(b, u) ==
            IF u.bad THEN Raise
            ELSE IF u.scheme # <<>> THEN Str(u.url)
            ELSE IF u.netloc # <<>> THEN Str(b.scheme \o <<":">> \o u.url)
            ELSE IF u.url # <<>> /\ Head(u.url) = "/" THEN Str(base \o u.url)
            ELSE Str(base \o <<"/">> \o u.url)
    IN  IF url = <<>> THEN Str(base) ELSE join(urlparse(base), urlparse(url))

\* Product(...).to_dict(); the optional fields (price, rating, reviews,
\* image_url, availability, timestamp) take no part in the loop's decisions
ProductDict(s, title, url) ==
    [platform |-> Str(platform(s)), title |-> title, url |-> url]

\* range(1, self.max_pages + 1) going one page too far
InRangeOffByOne(n, pages) == n \in 1..(pages + 1)

\* page_num in range(1, self.max_pages + 1)
InRange(n, pages) == n \in 1..pages

\* safe_goto letting a failed navigation escape
safe_goto_uncaught(outcome) == IF outcome = "ok" THEN True ELSE Raise

\* safe_goto(page, url): page.goto either loads the page, times out or fails
\* on the network; every exception is caught and reported as False
safe_goto(outcome) == IF outcome = "ok" THEN True ELSE False

\* what the loop last did with a container: the outcome and, for a container
\* skipped as a duplicate, the key it resolved to
NoItem == [outcome |-> "-", key |-> <<>>]

LastItem(out) ==
    [outcome |-> out.outcome, key |-> IF "key" \in DOMAIN out THEN out.key ELSE <<>>]

\* the Amazon loop's check for "Enter the characters you see below" in
\* soup.text; the Flipkart loop has no such check
HardBlock(s, page) == s = "Amazon" /\ page.captcha

\* the title the container loop works with: extract_text(item, [...]) and,
\* on Flipkart, the text of the first link when that found nothing
TitleOf(s, item) ==
    IF s = "Flipkart" /\ ~Truthy(item.title) THEN item.link_text ELSE item.title

\* the body of the container loop for one container: the try block and its
\* except clause.  item.fault is an exception raised while the remaining
\* fields are extracted (after the key was recorded).
ProcessItem(s, item, res, seen) ==
    LET skip(outcome) == [results |-> res, seen_urls |-> seen, outcome |-> outcome]
        keyed(title, url, key) ==
            IF key \in seen
            THEN [results |-> res, seen_urls |-> seen, outcome |-> "duplicate",
                  key |-> key]
            ELSE IF item.fault
            THEN [results   |-> res,
                  seen_urls |-> seen \cup {key},
                  outcome   |-> "error"]
            ELSE [results   |-> Append(res, ProductDict(s, title, url)),
                  seen_urls |-> seen \cup {key},
                  outcome   |-> "appended"]
        resolved(title, url) ==
            IF url = Raise THEN skip("error")
            ELSE keyed(title, url, unique_key(s, url.v))
        titled(title) ==
            IF ~Truthy(title) THEN skip("skipped")
            ELSE IF ~Truthy(item.link_suffix) THEN skip("skipped")
            ELSE resolved(title, urljoin(base_url(s), item.link_suffix.v))
    IN  titled(TitleOf(s, item))

----------------------------------------------------------------------------
(* src/news/aggregator.py *)

\* scrape_toi, scrape_hindu, scrape_ndtv
Sources == {"toi", "hindu", "ndtv"}

\* the "source" field: "Times of India", "The Hindu", "NDTV", cut to one letter
source_name(src) ==
    CASE src = "toi"   -> <<"T">>
      [] src = "hindu" -> <<"H">>
      [] src = "ndtv"  -> <<"N">>

\* what client.get followed by raise_for_status raises for an outcome of the
\* request: a 4xx or 5xx status gives httpx.HTTPStatusError, a timeout gives a
\* subclass of httpx.TimeoutException
ExceptionOf(outcome) ==
    IF outcome \in {"4xx", "5xx"} THEN "HTTPStatusError" ELSE "TimeoutException"

\* issubclass(cls, httpx.HTTPError): HTTPStatusError derives from HTTPError,
\* TimeoutException from TransportError, RequestError and HTTPError
IsHTTPError(cls) == cls \in {"HTTPStatusError", "TimeoutException"}

\* retry=retry_if_exception_type((httpx.HTTPError, httpx.TimeoutException))
retry_if_exception_type(outcome) ==
    IsHTTPError(ExceptionOf(outcome)) \/ ExceptionOf(outcome) = "TimeoutException"

\* a stop condition that allows one attempt more than configured
stop_after_attempt_late(attempt_number, max_attempt_number) ==
    attempt_number > max_attempt_number

\* stop=stop_after_attempt(config.max_retries), asked after a failed attempt
stop_after_attempt(attempt_number, max_attempt_number) ==
    attempt_number >= max_attempt_number

\* link.startswith('http')
StartsWithHttp(link) ==
    Len(link) >= 4 /\ SubSeq(link, 1, 4) = <<"h", "t", "t", "p">>

\* the link a headline is stored with: scrape_toi prefixes relative links
\* with its site (cut to "https://t"), the other two store the href as it is
HeadlineLink(src, link) ==
    IF src = "toi" /\ ~StartsWithHttp(link)
    THEN <<"h", "t", "t", "p", "s", ":", "/", "/", "t">> \o link
    ELSE link

\* a headline loop whose record lands one place before the end of the list,
\* as when another task appends while this one is suspended
ProcessHeadlineSuspended(src, h, d) ==
    LET record(text) == [source   |-> Str(source_name(src)),
                         headline |-> text,
                         link     |-> Str(HeadlineLink(src, h.href))]
        keep(text) ==
            IF Truthy(text) /\ h.href # <<>>
            THEN IF d = <<>> THEN <<record(text)>>
                 ELSE SubSeq(d, 1, Len(d) - 1) \o <<record(text), d[Len(d)]>>
            ELSE d
    IN  keep(sanitize_text(Str(h.text)))

\* the body of `for h in headlines` for one element
ProcessHeadline(src, h, d) ==
    LET keep(text) ==
            IF Truthy(text) /\ h.href # <<>>
            THEN Append(d, [source   |-> Str(source_name(src)),
                            headline |-> text,
                            link     |-> Str(HeadlineLink(src, h.href))])
            ELSE d
    IN  keep(sanitize_text(Str(h.text)))

RECURSIVE Collect(_, _, _)
\* the loop `for h in headlines` over the selected elements
Collect(src, headlines, d) ==
    IF headlines = <<>> THEN d
    ELSE Collect(src, Tail(headlines), ProcessHeadline(src, Head(headlines), d))

\* a gather that returns as soon as one task has finished
gather_first_completed(positions) == \E src \in Sources : positions[src] = "done"

\* await asyncio.gather(...): every task has finished
gather(positions) == \A src \in Sources : positions[src] = "done"

----------------------------------------------------------------------------
(* src/common/utils.py *)

HAN == "HAN"    \* a letter that has no case, such as a CJK ideograph

\* str.isdigit, for the ASCII digits
IsDigit(c) == c \in {"0", "1", "2", "3", "4", "5", "6", "7", "8", "9"}

\* int(c) of one digit character
DigitValue(c) ==
    CASE c = "0" -> 0 [] c = "1" -> 1 [] c = "2" -> 2 [] c = "3" -> 3
      [] c = "4" -> 4 [] c = "5" -> 5 [] c = "6" -> 6 [] c = "7" -> 7
      [] c = "8" -> 8 [] c = "9" -> 9

RECURSIVE int(_)
\* int(clean) of a string of digits
int(clean) ==
    IF clean = <<>> THEN 0
    ELSE 10 * int(SubSeq(clean, 1, Len(clean) - 1)) + DigitValue(clean[Len(clean)])

\* a cleaner that keeps the first run of digits only, as extract_number does
clean_price_first_run(price_raw) ==
    IF ~Truthy(price_raw) THEN None
    ELSE LET first == CHOOSE i \in 1..(Len(price_raw.v) + 1) :
                          /\ i <= Len(price_raw.v) => IsDigit(price_raw.v[i])
                          /\ \A k \in 1..(i - 1) : ~IsDigit(price_raw.v[k])
             last(i) == CHOOSE j \in (i - 1)..Len(price_raw.v) :
                          /\ \A k \in i..j : IsDigit(price_raw.v[k])
                          /\ j < Len(price_raw.v) => ~IsDigit(price_raw.v[j + 1])
             run(i) == SubSeq(price_raw.v, i, last(i))
         IN  IF run(first) # <<>> THEN IntVal(int(run(first))) ELSE None

\* clean_price(price_raw); int() does not raise on ASCII digits
clean_price(price_raw) ==
    IF ~Truthy(price_raw) THEN None
    ELSE LET parse(clean) == IF clean # <<>> THEN IntVal(int(clean)) ELSE None
         IN  parse(SelectSeq(price_raw.v, IsDigit))

RECURSIVE RStripSpace(_)
\* text.rstrip()
RStripSpace(text) ==
    IF text # <<>> /\ IsSpace(text[Len(text)])
    THEN RStripSpace(SubSeq(text, 1, Len(text) - 1)) ELSE text

RECURSIVE LStripSpace(_)
\* text.lstrip()
LStripSpace(text) ==
    IF text # <<>> /\ IsSpace(Head(text)) THEN LStripSpace(Tail(text)) ELSE text

\* text.strip()
StripSpace(text) == RStripSpace(LStripSpace(text))

\* found.get_text(strip=strip) of an element with one text node
get_text(found, strip) == IF strip THEN StripSpace(found.text) ELSE found.text

\* what a selector finds in an element: "raises" (select_one raises on the
\* selector), "none" (no match), or a match whose text / attribute is empty,
\* blank, or the selector's own mark with white space around it; a match
\* "bare" lacks the attribute
NodeKinds == {"raises", "none", "bare", "empty", "blank", "padded"}

\* element.select_one(selector): Raise, None, or the node found; the node
\* carries the same value as its text and as its attribute
select_one(element, selector) ==
    CASE element[selector] = "raises" -> Raise
      [] element[selector] = "none"   -> None
      [] element[selector] = "bare"   -> [t |-> "tag", text |-> <<>>, has_attr |-> FALSE]
      [] element[selector] = "empty"  -> [t |-> "tag", text |-> <<>>, has_attr |-> TRUE]
      [] element[selector] = "blank"  -> [t |-> "tag", text |-> <<" ">>, has_attr |-> TRUE]
      [] element[selector] = "padded" ->
            [t |-> "tag", text |-> <<" ", selector, " ">>, has_attr |-> TRUE]

\* `if found` for the result of select_one that did not raise
IsTag(found) == found.t = "tag"

RECURSIVE extract_text(_, _, _, _)
\* extract_text(element, selectors, default, strip)
extract_text(element, selectors, default, strip) ==
    IF selectors = <<>> THEN default
    ELSE LET try(found) ==
                 IF found # Raise /\ IsTag(found) /\ get_text(found, strip) # <<>>
                 THEN Str(get_text(found, strip))
                 ELSE extract_text(element, Tail(selectors), default, strip)
         IN  try(select_one(element, Head(selectors)))

RECURSIVE extract_attr(_, _, _)
\* extract_attr(element, selectors, attr, default); found[attr] is the text
\* the node carries
extract_attr(element, selectors, default) ==
    IF selectors = <<>> THEN default
    ELSE LET try(found) ==
                 IF found # Raise /\ IsTag(found) /\ found.has_attr /\ found.text # <<>>
                 THEN Str(found.text)
                 ELSE extract_attr(element, Tail(selectors), default)
         IN  try(select_one(element, Head(selectors)))

RECURSIVE _extract_text(_, _)
\* ecommerce_price_tracker: EcommerceScraper._extract_text
_extract_text(element, selectors) ==
    IF selectors = <<>> THEN None
    ELSE LET try(found) ==
                 IF found # Raise /\ IsTag(found)
                 THEN Str(get_text(found, TRUE))
                 ELSE _extract_text(element, Tail(selectors))
         IN  try(select_one(element, Head(selectors)))

\* text[:end] of Python, for any integer end
SliceTo(text, end) ==
    IF end >= 0
    THEN SubSeq(text, 1, IF end < Len(text) THEN end ELSE Len(text))
    ELSE SubSeq(text, 1, Len(text) + end)

\* truncate_text(text, max_length, suffix)
truncate_text(text, max_length, suffix) ==
    IF Len(text) <= max_length THEN text
    ELSE SliceTo(text, max_length - Len(suffix)) \o suffix

\* c.lower() of one character
Lower(c) == IF c = "A" THEN "a" ELSE IF c = "B" THEN "b" ELSE c

\* \w of a str pattern: letters of any script, digits and the underscore
IsWordChar(c) == c \in {"a", "b", "A", "B", HAN, "_"} \/ IsDigit(c)

RECURSIVE Collapse(_)
\* re.sub(r"[-\s]+", "_", safe): every run of hyphens and white space
\* becomes one underscore
Collapse(safe) ==
    IF safe = <<>> THEN <<>>
    ELSE IF Head(safe) = "-" \/ IsSpace(Head(safe))
         THEN IF Len(safe) >= 2 /\ (safe[2] = "-" \/ IsSpace(safe[2]))
              THEN Collapse(Tail(safe))
              ELSE <<"_">> \o Collapse(Tail(safe))
         ELSE <<Head(safe)>> \o Collapse(Tail(safe))

RECURSIVE StripUnderscore(_)
\* safe.strip("_")
StripUnderscore(safe) ==
    IF safe # <<>> /\ Head(safe) = "_" THEN StripUnderscore(Tail(safe))
    ELSE IF safe # <<>> /\ safe[Len(safe)] = "_"
         THEN StripUnderscore(SubSeq(safe, 1, Len(safe) - 1))
         ELSE safe

\* sanitize_filename(filename, max_length)
sanitize_filename(filename, max_length) ==
    LET lowered == [i \in 1..Len(filename) |-> Lower(filename[i])]
        kept(s) == SelectSeq(s, LAMBDA c : IsWordChar(c) \/ IsSpace(c) \/ c = "-")
        cut(safe) == IF Len(safe) > max_length THEN SliceTo(safe, max_length)
                                               ELSE safe
    IN  StripUnderscore(cut(Collapse(kept(lowered))))

----------------------------------------------------------------------------
(* src/common/browser.py: auto_scroll *)

\* what page.evaluate raises when it fails
EvaluateErrors == {"Error", "TimeoutError"}

\* an except clause that names TimeoutError only
IsTimeoutError(cls) == cls = "TimeoutError"

\* `except Exception`: both are subclasses of Exception
IsException(cls) == cls \in {"Error", "TimeoutError"}

----------------------------------------------------------------------------
(* Inputs of the scrapers: what the sites serve *)

MaxPages == 2          \* largest max_pages a scraper is constructed with

MaxContainers == 2     \* most containers on one page

GotoOutcomes == {"ok", "timeout", "net_error"}

\* href values: two paths that differ in a run of spaces, and a link that
\* urljoin rejects ("Invalid IPv6 URL")
Hrefs == { Str(<<"/", "a", " ", "b">>), Str(<<"/", "a", " ", " ", "b">>),
           Str(<<"/", "/", "[">>) }

\* what extract_text returns for the title selectors
Titles == {None, Str(<<"a">>)}

\* one item container, as the extractors see it
Containers ==
    [title : Titles, link_text : {Str(<<>>), Str(<<"a">>)},
     link_suffix : Hrefs \cup {None}, fault : BOOLEAN]

NoHref == [t |-> "no_href"]     \* a next link without an href attribute

\* the next-page control: none, one without href, or its href
NextLinks == {None, NoHref, Str(<<"/", "n">>), Str(<<"/", "/", "[">>)}

\* one served page: whether its text holds the CAPTCHA phrase and how many
\* (valid) containers it has; its next-page control is read in Paginate
Pages == [captcha : BOOLEAN, n : 0..MaxContainers]

NoPage == [captcha |-> FALSE, n |-> 0]

\* one job tuple: the a.title element (missing, without href, or complete), its
\* text, and the text of the company and location elements (None: no element)
JobItems ==
    [title_el : {"none", "no_href", "ok"}, title_text : {<<>>, <<"a">>},
     company : {None, Str(<<>>), Str(<<"c">>)}, location : {None, Str(<<>>)}]

\* one property tuple: the name link (missing or present), its text and href,
\* the locality text (None: no element), and whether handling it raises
PropertyItems ==
    [title_el : {"none", "ok"}, title_text : {<<>>, <<"a">>},
     href : {None, Str(<<"/", "p">>)}, location : {None, Str(<<>>)},
     fault : BOOLEAN]

MaxRetries == 2        \* largest config.max_retries

\* how one GET ends: a response with a 2xx status, a 4xx or 5xx status, a timeout
FetchOutcomes == {"ok", "4xx", "5xx", "timeout"}

\* one selected headline element: its text and its href ('' when it has none)
HeadlineItems == [text : {<<>>, <<"a">>}, href : {<<>>, <<"/", "n">>}]

\* the headline elements of one response
Headlines == UNION {[1..n -> HeadlineItems] : n \in 0..MaxContainers}

----------------------------------------------------------------------------
(* Inputs of the helpers *)

MaxSelectors == 3      \* longest selector list

MaxText == 3           \* longest text, file name and max_length

MaxPriceLen == 4       \* longest raw price

MaxScrolls == 3        \* largest max_scrolls

MaxHeight == 2         \* largest document.body.scrollHeight

\* the strings over an alphabet, up to a length
StringsOver(alphabet, n) == UNION {[1..k -> alphabet] : k \in 0..n}

\* the selectors of the tables
SelectorNames == {"h2", "a", "span"}

\* the arguments a helper is called with.  A raw price is made of digits, a
\* currency sign and a separator; an element is given by what each selector
\* finds in it; a file name holds letters of both cases, a digit, the
\* separators the patterns name, a character they remove, and a letter
\* outside ASCII
ArgsOf(f) ==
    CASE f = "clean_price" ->
            [price_raw : {None} \cup
                 {Str(t) : t \in StringsOver({"0", "9", "$", "."}, MaxPriceLen)}]
      [] f = "extract_text" ->
            [element : [SelectorNames -> NodeKinds],
             selectors : StringsOver(SelectorNames, MaxSelectors),
             strip : BOOLEAN]
      [] f \in {"extract_attr", "_extract_text"} ->
            [element : [SelectorNames -> NodeKinds],
             selectors : StringsOver(SelectorNames, MaxSelectors)]
      [] f = "sanitize_filename" ->
            [filename : StringsOver({"A", "a", "1", "_", "-", " ", "/", HAN}, MaxText),
             max_length : 0..MaxText]
      [] f = "truncate_text" ->
            [text : StringsOver({"a", "b"}, MaxText), max_length : 0..MaxText,
             suffix : {<<>>, <<".">>, <<".", ".", ".">>}]

\* the call has not returned
Pending == [t |-> "pending"]

----------------------------------------------------------------------------
(* The values of the variables a specification does not use *)

FilterIdle ==
    /\ validator_func = "-"
    /\ data_input = <<>>
    /\ data_list = <<>>
    /\ valid_data = <<>>
    /\ fpc = "idle"

CliIdle ==
    /\ cmd = "-"
    /\ pc = "idle"
    /\ site = "-"
    /\ max_pages = 0
    /\ page_num = 0
    /\ current_url = <<>>
    /\ soup = NoPage
    /\ item_idx = 0
    /\ results = <<>>
    /\ seen_urls = {}
    /\ data = <<>>
    /\ raised = FALSE
    /\ gotos = [s \in Sites |-> 0]
    /\ stop = [s \in Sites |-> "-"]
    /\ sleeps = [s \in Sites |-> 0]
    /\ closes = [s \in Sites |-> 0]
    /\ nav = [s \in Sites |-> "-"]
    /\ last_item = NoItem
    /\ save_calls = 0
    /\ written = <<>>
    /\ runner = "-"
    /\ exit_code = -1
    /\ fatal = "-"
    /\ started = {}
    /\ ended = {}
    /\ failed = {}
    /\ max_retries = 0
    /\ tpc = [src \in Sources |-> "-"]
    /\ requests = [src \in Sources |-> 0]
    /\ nlast = [src \in Sources |-> "-"]
    /\ nresult = [src \in Sources |-> "-"]
    /\ served = [src \in Sources |-> 0]

UtilIdle ==
    /\ func = "-"
    /\ args = <<>>
    /\ ret = Pending

ScrollIdle ==
    /\ max_scrolls = 0
    /\ spc = "idle"
    /\ scroll_i = 0
    /\ prev_height = -1
    /\ heights = <<>>
    /\ scrolls = 0
    /\ scroll_raised = FALSE

----------------------------------------------------------------------------
(* Specification of one call of filter_valid_data *)

FilterInit ==
    /\ validator_func \in Kinds
    /\ data_input \in InputLists(validator_func)
    /\ data_list = data_input
    /\ valid_data = <<>>
    /\ fpc = "call"
    /\ CliIdle
    /\ UtilIdle
    /\ ScrollIdle

FilterValidData ==
    /\ fpc = "call"
    /\ LET out == filter_valid_data(data_list, validator_func)
       IN  /\ data_list' = out.data_list
           /\ valid_data' = out.valid_data
    /\ fpc' = "returned"
    /\ UNCHANGED <<validator_func, data_input>>
    /\ UNCHANGED <<cliVars, mainVars, newsVars, helperVars>>

FilterNext == FilterValidData

SpecFilter == FilterInit /\ [][FilterNext]_vars

----------------------------------------------------------------------------
(* Specification of one call of a helper of src/common/utils.py *)

UtilInit ==
    /\ func \in {"clean_price", "extract_text", "extract_attr", "_extract_text",
                 "sanitize_filename", "truncate_text"}
    /\ args \in ArgsOf(func)
    /\ ret = Pending
    /\ FilterIdle
    /\ CliIdle
    /\ ScrollIdle

\* what a helper call leaves alone
UtilFrame ==
    UNCHANGED <<func, args, scrollVars, filterVars, cliVars, mainVars, newsVars>>

CleanPrice ==
    /\ func = "clean_price" /\ ret = Pending
    /\ ret' = clean_price(args.price_raw)
    /\ UtilFrame

ExtractText ==
    /\ func = "extract_text" /\ ret = Pending
    /\ ret' = extract_text(args.element, args.selectors, None, args.strip)
    /\ UtilFrame

ExtractAttr ==
    /\ func = "extract_attr" /\ ret = Pending
    /\ ret' = extract_attr(args.element, args.selectors, None)
    /\ UtilFrame

LegacyExtractText ==
    /\ func = "_extract_text" /\ ret = Pending
    /\ ret' = _extract_text(args.element, args.selectors)
    /\ UtilFrame

SanitizeFilename ==
    /\ func = "sanitize_filename" /\ ret = Pending
    /\ ret' = Str(sanitize_filename(args.filename, args.max_length))
    /\ UtilFrame

TruncateText ==
    /\ func = "truncate_text" /\ ret = Pending
    /\ ret' = Str(truncate_text(args.text, args.max_length, args.suffix))
    /\ UtilFrame

UtilNext ==
    \/ CleanPrice
    \/ ExtractText
    \/ ExtractAttr
    \/ LegacyExtractText
    \/ SanitizeFilename
    \/ TruncateText

SpecUtil == UtilInit /\ [][UtilNext]_vars

----------------------------------------------------------------------------
(* Specification of one call of auto_scroll *)

ScrollInit ==
    /\ max_scrolls \in 0..MaxScrolls
    /\ spc = "for"
    /\ scroll_i = 0
    /\ prev_height = -1
    /\ heights = <<>>
    /\ scrolls = 0
    /\ scroll_raised = FALSE
    /\ FilterIdle
    /\ CliIdle
    /\ UtilIdle

\* what a step of auto_scroll leaves alone
ScrollFrame ==
    UNCHANGED <<max_scrolls, utilVars, filterVars, cliVars, mainVars, newsVars>>

\* `for i in range(max_scrolls)`: the next i, or the loop is over
AutoScrollFor ==
    /\ spc = "for"
    /\ spc' = IF scroll_i < max_scrolls THEN "scroll" ELSE "returned"
    /\ UNCHANGED <<scroll_i, prev_height, heights, scrolls, scroll_raised>>
    /\ ScrollFrame

\* page.evaluate("window.scrollBy(...)") and the delay; an error of the
\* evaluation goes to the except clause, which logs a warning
ScrollBy ==
    /\ spc = "scroll"
    /\ scrolls' = scrolls + 1
    /\ \/ /\ spc' = "height"
          /\ UNCHANGED scroll_raised
       \/ \E e \in EvaluateErrors :
             /\ spc' = "returned"
             /\ scroll_raised' = ~IsException(e)
    /\ UNCHANGED <<scroll_i, prev_height, heights>>
    /\ ScrollFrame

\* page.evaluate("document.body.scrollHeight") and the comparison with
\* prev_height, which breaks the loop when they are equal
ScrollHeight ==
    /\ spc = "height"
    /\ \/ \E curr_height \in 0..MaxHeight :
             /\ heights' = Append(heights, curr_height)
             /\ IF curr_height = prev_height
                THEN /\ spc' = "returned"
                     /\ UNCHANGED <<prev_height, scroll_i>>
                ELSE /\ prev_height' = curr_height
                     /\ scroll_i' = scroll_i + 1
                     /\ spc' = "for"
             /\ UNCHANGED scroll_raised
       \/ \E e \in EvaluateErrors :
             /\ spc' = "returned"
             /\ scroll_raised' = ~IsException(e)
             /\ UNCHANGED <<scroll_i, prev_height, heights>>
    /\ UNCHANGED scrolls
    /\ ScrollFrame

ScrollNext ==
    \/ AutoScrollFor
    \/ ScrollBy
    \/ ScrollHeight

\* every await of auto_scroll completes or fails: the event loop resumes the
\* coroutine
SpecScroll == ScrollInit /\ [][ScrollNext]_vars /\ WF_vars(ScrollNext)

----------------------------------------------------------------------------
(* One run of the master CLI: scrape.py main() with one command *)

Commands == {"ecommerce", "jobs", "news", "realestate"}

\* a fresh scraper object and nothing observed of it yet
Fresh ==
    /\ site = "-"
    /\ page_num = 0
    /\ current_url = <<>>
    /\ soup = NoPage
    /\ item_idx = 0
    /\ results = <<>>
    /\ seen_urls = {}
    /\ data = <<>>
    /\ raised = FALSE
    /\ gotos = [s \in Sites |-> 0]
    /\ stop = [s \in Sites |-> "-"]
    /\ sleeps = [s \in Sites |-> 0]
    /\ closes = [s \in Sites |-> 0]
    /\ nav = [s \in Sites |-> "-"]
    /\ last_item = NoItem
    /\ save_calls = 0
    /\ written = <<>>
    /\ tpc = [src \in Sources |-> "-"]
    /\ requests = [src \in Sources |-> 0]
    /\ nlast = [src \in Sources |-> "-"]
    /\ nresult = [src \in Sources |-> "-"]
    /\ served = [src \in Sources |-> 0]

\* main() up to the dispatch on args.command
Started ==
    /\ FilterIdle
    /\ UtilIdle
    /\ ScrollIdle
    /\ pc = "start"
    /\ exit_code = -1
    /\ fatal = "-"
    /\ started = {}
    /\ ended = {}
    /\ failed = {}
    /\ Fresh

Init ==
    /\ cmd \in Commands
    /\ runner = cmd
    /\ max_pages \in (IF cmd = "ecommerce" THEN (-1)..MaxPages ELSE {0})
    /\ max_retries \in (IF cmd = "news" THEN 0..MaxRetries ELSE {0})
    /\ Started

\* run_ecommerce: the scraper is constructed and scrape_amazon is called
RunEcommerce ==
    /\ pc = "start" /\ runner = "ecommerce"
    /\ site' = "Amazon"
    /\ pc' = "launch"
    /\ started' = started \cup {"Amazon"}
    /\ UNCHANGED <<cmd, max_pages, page_num, current_url, soup, item_idx, results,
                   seen_urls, data, raised, gotos, stop, sleeps, closes, nav,
                   last_item, save_calls, written>>
    /\ UNCHANGED <<filterVars, helperVars, newsVars, runner, exit_code, fatal, ended, failed>>

\* scrape_amazon / scrape_flipkart up to the try: the browser is launched and
\* the cursor is set to the search URL; a failing launch raises to the caller
Launch(s) ==
    /\ pc = "launch" /\ site = s
    /\ \E ok \in BOOLEAN :
          IF ok
          THEN /\ pc' = "for"
               /\ page_num' = 1
               /\ current_url' = search_url(s)
               /\ UNCHANGED raised
          ELSE /\ pc' = "return"
               /\ raised' = TRUE
               /\ UNCHANGED <<page_num, current_url>>
    /\ UNCHANGED <<cmd, site, max_pages, soup, item_idx, results, seen_urls, data,
                   gotos, stop, sleeps, closes, nav, last_item, save_calls, written>>
    /\ UNCHANGED restVars

\* the for loop has run out of page numbers
ForExhausted(s) ==
    /\ pc = "for" /\ site = s
    /\ ~InRange(page_num, max_pages)
    /\ stop' = [stop EXCEPT ![s] = "bound"]
    /\ pc' = "finally"
    /\ UNCHANGED <<cmd, site, max_pages, page_num, current_url, soup, item_idx,
                   results, seen_urls, data, raised, gotos, sleeps, closes, nav,
                   last_item, save_calls, written>>
    /\ UNCHANGED restVars

\* one iteration starts: safe_goto(page, current_url); False breaks the loop
SafeGoto(s) ==
    /\ pc = "for" /\ site = s
    /\ InRange(page_num, max_pages)
    /\ \E outcome \in GotoOutcomes :
          /\ gotos' = [gotos EXCEPT ![s] = @ + 1]
          /\ nav' = [nav EXCEPT ![s] = outcome]
          /\ IF safe_goto(outcome) = Raise
             THEN /\ raised' = TRUE
                  /\ stop' = [stop EXCEPT ![s] = "raised"]
                  /\ pc' = "finally"
             ELSE IF safe_goto(outcome) = True
             THEN /\ pc' = "content"
                  /\ UNCHANGED <<stop, raised>>
             ELSE /\ stop' = [stop EXCEPT ![s] = "nav_failed"]
                  /\ pc' = "finally"
                  /\ UNCHANGED raised
    /\ UNCHANGED <<cmd, site, max_pages, page_num, current_url, soup, item_idx,
                   results, seen_urls, data, sleeps, closes, last_item,
                   save_calls, written>>
    /\ UNCHANGED restVars

\* the page step without the break on an empty container list
PageContentNoBreak(s) ==
    /\ pc = "content" /\ site = s
    /\ \/ /\ raised' = TRUE
          /\ stop' = [stop EXCEPT ![s] = "raised"]
          /\ pc' = "finally"
          /\ UNCHANGED <<soup, item_idx, last_item>>
       \/ \E page \in Pages :
             /\ soup' = page
             /\ UNCHANGED raised
             /\ IF HardBlock(s, page)
                THEN /\ stop' = [stop EXCEPT ![s] = "captcha"]
                     /\ pc' = "finally"
                     /\ UNCHANGED <<item_idx, last_item>>
                ELSE /\ pc' = "items"
                     /\ item_idx' = 1
                     /\ last_item' = NoItem
                     /\ UNCHANGED stop
    /\ UNCHANGED <<cmd, site, max_pages, page_num, current_url, results, seen_urls,
                   data, gotos, sleeps, closes, nav, save_calls, written>>
    /\ UNCHANGED restVars

\* auto_scroll, page.content(), BeautifulSoup, the CAPTCHA check (Amazon) and
\* the container selection; page.content() may raise, which leaves the loop
PageContent(s) ==
    /\ pc = "content" /\ site = s
    /\ \/ /\ raised' = TRUE
          /\ stop' = [stop EXCEPT ![s] = "raised"]
          /\ pc' = "finally"
          /\ UNCHANGED <<soup, item_idx, last_item>>
       \/ \E page \in Pages :
             /\ soup' = page
             /\ UNCHANGED raised
             /\ IF HardBlock(s, page)
                THEN /\ stop' = [stop EXCEPT ![s] = "captcha"]
                     /\ pc' = "finally"
                     /\ UNCHANGED <<item_idx, last_item>>
                ELSE IF page.n = 0
                THEN /\ stop' = [stop EXCEPT ![s] = "no_items"]
                     /\ pc' = "finally"
                     /\ UNCHANGED <<item_idx, last_item>>
                ELSE /\ pc' = "items"
                     /\ item_idx' = 1
                     /\ last_item' = NoItem
                     /\ UNCHANGED stop
    /\ UNCHANGED <<cmd, site, max_pages, page_num, current_url, results, seen_urls,
                   data, gotos, sleeps, closes, nav, save_calls, written>>
    /\ UNCHANGED restVars

\* the container loop with an exception of one container left uncaught
ItemUncaught(s) ==
    /\ pc = "items" /\ site = s
    /\ item_idx <= soup.n
    /\ \E item \in Containers :
          \E out \in {ProcessItem(s, item, results, seen_urls)} :
              /\ results' = out.results
              /\ seen_urls' = out.seen_urls
              /\ last_item' = LastItem(out)
              /\ IF out.outcome = "error"
                 THEN /\ raised' = TRUE
                      /\ stop' = [stop EXCEPT ![s] = "raised"]
                      /\ pc' = "finally"
                      /\ UNCHANGED item_idx
                 ELSE /\ item_idx' = item_idx + 1
                      /\ UNCHANGED <<pc, raised, stop>>
    /\ UNCHANGED <<cmd, site, max_pages, page_num, current_url, soup, data,
                   gotos, sleeps, closes, nav, save_calls, written>>
    /\ UNCHANGED restVars

\* one iteration of the container loop
Item(s) ==
    /\ pc = "items" /\ site = s
    /\ item_idx <= soup.n
    /\ \E item \in Containers :
          \E out \in {ProcessItem(s, item, results, seen_urls)} :
              /\ results' = out.results
              /\ seen_urls' = out.seen_urls
              /\ last_item' = LastItem(out)
    /\ item_idx' = item_idx + 1
    /\ UNCHANGED <<cmd, pc, site, max_pages, page_num, current_url, soup, data,
                   raised, gotos, stop, sleeps, closes, nav, save_calls, written>>
    /\ UNCHANGED restVars

\* a page loop that follows the next-page link only when the container
\* handled last gave a record
PaginateNeedsNewItem(s) ==
    /\ pc = "items" /\ site = s
    /\ item_idx > soup.n
    /\ \E next_btn \in NextLinks :
       IF IsStr(next_btn) /\ last_item.outcome = "appended"
       THEN \E next_url \in {urljoin(base_url(s), next_btn.v)} :
                IF next_url = Raise
                THEN /\ raised' = TRUE
                     /\ stop' = [stop EXCEPT ![s] = "raised"]
                     /\ pc' = "finally"
                     /\ UNCHANGED <<current_url, sleeps, page_num>>
                ELSE /\ current_url' = next_url.v
                     /\ sleeps' = [sleeps EXCEPT ![s] = @ + 1]
                     /\ page_num' = page_num + 1
                     /\ pc' = "for"
                     /\ UNCHANGED <<raised, stop>>
       ELSE /\ stop' = [stop EXCEPT ![s] = "no_next"]
            /\ pc' = "finally"
            /\ UNCHANGED <<current_url, sleeps, page_num, raised>>
    /\ UNCHANGED <<cmd, site, max_pages, soup, item_idx, results, seen_urls, data,
                   gotos, closes, nav, last_item, save_calls, written>>
    /\ UNCHANGED restVars

\* after the container loop: the next-page control decides; with an href the
\* cursor moves to the resolved URL and the inter-page delay is taken
Paginate(s) ==
    /\ pc = "items" /\ site = s
    /\ item_idx > soup.n
    /\ \E next_btn \in NextLinks :
       IF IsStr(next_btn)
       THEN \E next_url \in {urljoin(base_url(s), next_btn.v)} :
                IF next_url = Raise
                THEN /\ raised' = TRUE
                     /\ stop' = [stop EXCEPT ![s] = "raised"]
                     /\ pc' = "finally"
                     /\ UNCHANGED <<current_url, sleeps, page_num>>
                ELSE /\ current_url' = next_url.v
                     /\ sleeps' = [sleeps EXCEPT ![s] = @ + 1]
                     /\ page_num' = page_num + 1
                     /\ pc' = "for"
                     /\ UNCHANGED <<raised, stop>>
       ELSE /\ stop' = [stop EXCEPT ![s] = "no_next"]
            /\ pc' = "finally"
            /\ UNCHANGED <<current_url, sleeps, page_num, raised>>
    /\ UNCHANGED <<cmd, site, max_pages, soup, item_idx, results, seen_urls, data,
                   gotos, closes, nav, last_item, save_calls, written>>
    /\ UNCHANGED restVars

\* a page loop without try/finally, whose browser.close() follows the loop and
\* is reached only when no exception left it
CloseAfterLoop(s) ==
    /\ pc = "finally" /\ site = s
    /\ closes' = [closes EXCEPT ![s] = IF raised THEN @ ELSE @ + 1]
    /\ pc' = "return"
    /\ soup' = NoPage
    /\ item_idx' = 0
    /\ last_item' = NoItem
    /\ UNCHANGED <<cmd, site, max_pages, page_num, current_url, results, seen_urls,
                   data, raised, gotos, stop, sleeps, nav, save_calls, written>>
    /\ UNCHANGED restVars

\* finally: browser.close(); the routine then returns or re-raises
Finally(s) ==
    /\ pc = "finally" /\ site = s
    /\ closes' = [closes EXCEPT ![s] = @ + 1]
    /\ pc' = "return"
    /\ soup' = NoPage
    /\ item_idx' = 0
    /\ last_item' = NoItem
    /\ UNCHANGED <<cmd, site, max_pages, page_num, current_url, results, seen_urls,
                   data, raised, gotos, stop, sleeps, nav, save_calls, written>>
    /\ UNCHANGED restVars

\* run_ecommerce with the scrape calls outside any try: an exception of a
\* scrape routine goes up to main
AfterScrapeUncaught ==
    /\ pc = "return" /\ runner = "ecommerce"
    /\ raised' = FALSE
    /\ ended' = ended \cup {site}
    /\ failed' = IF raised THEN failed \cup {site} ELSE failed
    /\ IF raised
       THEN /\ pc' = "exit"
            /\ exit_code' = 1
            /\ fatal' = "scrape"
            /\ UNCHANGED <<site, started>>
       ELSE /\ UNCHANGED <<exit_code, fatal>>
            /\ IF site = "Amazon"
               THEN /\ site' = "Flipkart"
                    /\ pc' = "launch"
                    /\ started' = started \cup {"Flipkart"}
               ELSE /\ site' = "-"
                    /\ pc' = "save"
                    /\ UNCHANGED started
    /\ UNCHANGED <<cmd, max_pages, page_num, current_url, soup, item_idx, results,
                   seen_urls, data, gotos, stop, sleeps, closes, nav, last_item,
                   save_calls, written>>
    /\ UNCHANGED <<filterVars, helperVars, newsVars, runner>>

\* run_ecommerce after a scrape call: an exception is caught and logged, then
\* the next site is scraped, and after the last one save_results is called
AfterScrape ==
    /\ pc = "return" /\ runner = "ecommerce"
    /\ raised' = FALSE
    /\ ended' = ended \cup {site}
    /\ failed' = IF raised THEN failed \cup {site} ELSE failed
    /\ IF site = "Amazon"
       THEN /\ site' = "Flipkart"
            /\ pc' = "launch"
            /\ started' = started \cup {"Flipkart"}
       ELSE /\ site' = "-"
            /\ pc' = "save"
            /\ UNCHANGED started
    /\ UNCHANGED <<cmd, max_pages, page_num, current_url, soup, item_idx, results,
                   seen_urls, data, gotos, stop, sleeps, closes, nav, last_item,
                   save_calls, written>>
    /\ UNCHANGED <<filterVars, helperVars, newsVars, runner, exit_code, fatal>>

\* EcommerceScraper.save_results
SaveResults ==
    /\ pc = "save" /\ runner = "ecommerce"
    /\ save_calls' = save_calls + 1
    /\ IF results = <<>>
       THEN /\ pc' = "done"
            /\ UNCHANGED <<results, written, exit_code, fatal>>
       ELSE \E out \in {filter_valid_data(results, "product")} :
                /\ results' = out.data_list
                /\ IF out.valid_data = <<>>
                   THEN /\ pc' = "done"
                        /\ UNCHANGED <<written, exit_code, fatal>>
                   ELSE \E io_ok \in BOOLEAN :
                           IF io_ok
                           THEN /\ written' = out.valid_data
                                /\ pc' = "done"
                                /\ UNCHANGED <<exit_code, fatal>>
                           ELSE /\ pc' = "exit"
                                /\ exit_code' = 1
                                /\ fatal' = "save"
                                /\ UNCHANGED written
    /\ UNCHANGED <<cmd, site, max_pages, page_num, current_url, soup, item_idx,
                   seen_urls, data, raised, gotos, stop, sleeps, closes, nav,
                   last_item>>
    /\ UNCHANGED <<filterVars, helperVars, newsVars, runner, started, ended, failed>>

----------------------------------------------------------------------------
(* src/jobs/scraper.py and src/realestate/crawler.py *)

\* the body of scrape_naukri's loop for one job tuple; title_el['href'] raises
\* KeyError when the link has no href, which the except clause logs
ProcessJob(job, d) ==
    IF job.title_el = "none"
    THEN [data |-> d, outcome |-> "skipped"]
    ELSE IF job.title_el = "no_href"
    THEN [data |-> d, outcome |-> "error"]
    ELSE [data |-> Append(d,
              [title    |-> Str(job.title_text),
               company  |-> IF job.company # None THEN job.company
                            ELSE Str(<<"C", "o", "n", "f">>),
               location |-> IF job.location # None THEN job.location
                            ELSE Str(<<"N", "o", "t">>),
               link     |-> Str(<<"/", "j">>)]),
          outcome |-> "appended"]

\* the body of scrape_99acres's loop for one property tuple (city is "pune")
ProcessProperty(item, d) ==
    IF item.fault
    THEN [data |-> d, outcome |-> "error"]
    ELSE IF item.title_el = "none"
    THEN [data |-> d, outcome |-> "skipped"]
    ELSE [data |-> Append(d,
              [title    |-> Str(item.title_text),
               location |-> IF item.location # None THEN item.location
                            ELSE Str(<<"p", "u", "n", "e">>),
               link     |-> IF item.href # None THEN item.href ELSE Str(<<>>)]),
          outcome |-> "appended"]

\* run_jobs / run_realestate: the scraper is constructed, its scrape routine called
RunSinglePage ==
    /\ pc = "start" /\ runner \in {"jobs", "realestate"}
    /\ pc' = "launch"
    /\ started' = started \cup {runner}
    /\ UNCHANGED <<cmd, site, max_pages, page_num, current_url, soup, item_idx,
                   results, seen_urls, data, raised, gotos, stop, sleeps, closes,
                   nav, last_item, save_calls, written>>
    /\ UNCHANGED <<filterVars, helperVars, newsVars, runner, exit_code, fatal, ended, failed>>

\* scrape_naukri / scrape_99acres: launch of the browser, which may raise
LaunchSinglePage ==
    /\ pc = "launch" /\ runner \in {"jobs", "realestate"}
    /\ \E ok \in BOOLEAN :
          IF ok THEN pc' = "content" /\ UNCHANGED raised
                ELSE pc' = "return" /\ raised' = TRUE
    /\ UNCHANGED <<cmd, site, max_pages, page_num, current_url, soup, item_idx,
                   results, seen_urls, data, gotos, stop, sleeps, closes, nav,
                   last_item, save_calls, written>>
    /\ UNCHANGED restVars

\* _get_page_content: None on any failure (the browser is closed and the
\* routine returns), else the page is parsed and its tuples selected
GetPageContent ==
    /\ pc = "content" /\ runner \in {"jobs", "realestate"}
    /\ \/ /\ pc' = "return"
          /\ UNCHANGED <<soup, item_idx, last_item>>
       \/ \E n \in 0..MaxContainers :
             /\ soup' = [captcha |-> FALSE, n |-> n]
             /\ item_idx' = 1
             /\ last_item' = NoItem
             /\ pc' = "items"
    /\ UNCHANGED <<cmd, site, max_pages, page_num, current_url, results, seen_urls,
                   data, raised, gotos, stop, sleeps, closes, nav, save_calls,
                   written>>
    /\ UNCHANGED restVars

\* one iteration of `for job in jobs`
JobItem ==
    /\ pc = "items" /\ runner = "jobs"
    /\ item_idx <= soup.n
    /\ \E job \in JobItems :
          LET out == ProcessJob(job, data)
          IN  data' = out.data /\ last_item' = LastItem(out)
    /\ item_idx' = item_idx + 1
    /\ UNCHANGED <<cmd, pc, site, max_pages, page_num, current_url, soup, results,
                   seen_urls, raised, gotos, stop, sleeps, closes, nav, save_calls,
                   written>>
    /\ UNCHANGED restVars

\* one iteration of `for item in items`
PropertyItem ==
    /\ pc = "items" /\ runner = "realestate"
    /\ item_idx <= soup.n
    /\ \E item \in PropertyItems :
          LET out == ProcessProperty(item, data)
          IN  data' = out.data /\ last_item' = LastItem(out)
    /\ item_idx' = item_idx + 1
    /\ UNCHANGED <<cmd, pc, site, max_pages, page_num, current_url, soup, results,
                   seen_urls, raised, gotos, stop, sleeps, closes, nav, save_calls,
                   written>>
    /\ UNCHANGED restVars

\* after the loop: browser.close(), which may raise (the browser is gone),
\* and return
CloseSinglePage ==
    /\ pc = "items" /\ runner \in {"jobs", "realestate"}
    /\ item_idx > soup.n
    /\ pc' = "return"
    /\ \E closed \in BOOLEAN : raised' = ~closed
    /\ soup' = NoPage
    /\ item_idx' = 0
    /\ last_item' = NoItem
    /\ UNCHANGED <<cmd, site, max_pages, page_num, current_url, results, seen_urls,
                   data, gotos, stop, sleeps, closes, nav, save_calls,
                   written>>
    /\ UNCHANGED restVars

\* run_jobs / run_news / run_realestate after the scrape call: save_data
\* follows inside the try, so an exception from the scrape goes to the except
\* clause instead
AfterSinglePage ==
    /\ pc = "return" /\ runner \in {"jobs", "news", "realestate"}
    /\ IF raised THEN pc' = "done" ELSE pc' = "save"
    /\ raised' = FALSE
    /\ ended' = ended \cup {runner}
    /\ failed' = IF raised THEN failed \cup {runner} ELSE failed
    /\ UNCHANGED <<cmd, site, max_pages, page_num, current_url, soup, item_idx,
                   results, seen_urls, data, gotos, stop, sleeps, closes, nav,
                   last_item, save_calls, written>>
    /\ UNCHANGED <<filterVars, helperVars, newsVars, runner, exit_code, fatal, started>>

\* JobScraper.save_data / RealEstateCrawler.save_data: the whole list is written
SaveData ==
    /\ pc = "save" /\ runner \in {"jobs", "realestate"}
    /\ save_calls' = save_calls + 1
    /\ written' = data
    /\ pc' = "done"
    /\ UNCHANGED <<cmd, site, max_pages, page_num, current_url, soup, item_idx,
                   results, seen_urls, data, raised, gotos, stop, sleeps, closes,
                   nav, last_item>>
    /\ UNCHANGED restVars

----------------------------------------------------------------------------
(* src/news/aggregator.py: run() and its three tasks, and save_data *)

\* run_news: the aggregator is constructed and run() called; run() opens the
\* client and hands the three scrape coroutines to gather
RunNews ==
    /\ pc = "start" /\ runner = "news"
    /\ pc' = "gather"
    /\ tpc' = [src \in Sources |-> "fetch"]
    /\ started' = started \cup {"news"}
    /\ UNCHANGED <<cmd, site, max_pages, page_num, current_url, soup, item_idx,
                   results, seen_urls, data, raised, gotos, stop, sleeps, closes,
                   nav, last_item, save_calls, written>>
    /\ UNCHANGED <<filterVars, helperVars, runner, exit_code, fatal, ended, failed>>
    /\ UNCHANGED <<max_retries, requests, nlast, nresult, served>>

\* one attempt of _fetch_with_retry in the task of one source, up to the
\* task's next await: a failed attempt is retried (after the backoff wait)
\* or re-raised to the scrape routine, whose except clause logs it; a
\* response is parsed and its headlines collected without a further await
NewsRequest(src) ==
    /\ pc = "gather" /\ tpc[src] = "fetch"
    /\ requests' = [requests EXCEPT ![src] = @ + 1]
    /\ \E outcome \in FetchOutcomes :
          /\ nlast' = [nlast EXCEPT ![src] = outcome]
          /\ IF outcome = "ok"
             THEN /\ tpc' = [tpc EXCEPT ![src] = "done"]
                  /\ \E parsed \in BOOLEAN :
                        IF parsed
                        THEN \E headlines \in Headlines :
                               \E d \in {Collect(src, headlines, data)} :
                                  /\ data' = d
                                  /\ served' = [served EXCEPT ![src] = Len(d) - Len(data)]
                                  /\ nresult' = [nresult EXCEPT ![src] = "ok"]
                        ELSE /\ nresult' = [nresult EXCEPT ![src] = "parse"]
                             /\ UNCHANGED <<data, served>>
             ELSE IF /\ retry_if_exception_type(outcome)
                     /\ ~stop_after_attempt(requests[src] + 1, max_retries)
             THEN UNCHANGED <<tpc, nresult, data, served>>
             ELSE /\ tpc' = [tpc EXCEPT ![src] = "done"]
                  /\ nresult' = [nresult EXCEPT ![src] = outcome]
                  /\ UNCHANGED <<data, served>>
    /\ UNCHANGED <<cmd, pc, site, max_pages, page_num, current_url, soup, item_idx,
                   results, seen_urls, raised, gotos, stop, sleeps, closes, nav,
                   last_item, save_calls, written>>
    /\ UNCHANGED <<filterVars, helperVars, mainVars, max_retries>>

\* gather returns, the client is closed and run() returns
NewsGather ==
    /\ pc = "gather" /\ runner = "news"
    /\ gather(tpc)
    /\ pc' = "return"
    /\ UNCHANGED <<cmd, site, max_pages, page_num, current_url, soup, item_idx,
                   results, seen_urls, data, raised, gotos, stop, sleeps, closes,
                   nav, last_item, save_calls, written>>
    /\ UNCHANGED restVars

\* NewsAggregator.save_data
SaveNewsData ==
    /\ pc = "save" /\ runner = "news"
    /\ save_calls' = save_calls + 1
    /\ IF data = <<>>
       THEN UNCHANGED <<data, written>>
       ELSE \E out \in {filter_valid_data(data, "news")} :
                /\ data' = out.data_list
                /\ written' = out.valid_data
    /\ pc' = "done"
    /\ UNCHANGED <<cmd, site, max_pages, page_num, current_url, soup, item_idx,
                   results, seen_urls, raised, gotos, stop, sleeps, closes, nav,
                   last_item>>
    /\ UNCHANGED restVars

----------------------------------------------------------------------------
(* scrape.py: main() and run_all() *)

\* a scrape routine is at work in its loop
InLoop ==
    \/ runner = "ecommerce" /\ pc \in {"for", "content", "items"}
    \/ runner \in {"jobs", "realestate"} /\ pc \in {"content", "items"}
    \/ runner = "news" /\ pc = "gather"

\* the user interrupts: KeyboardInterrupt passes the `except Exception`
\* clauses of the scrape routine and of the runner (the finally clause of the
\* e-commerce routines closes the browser) and reaches main, which logs it
\* and calls sys.exit(1)
Interrupt ==
    /\ InLoop
    /\ pc' = "exit"
    /\ exit_code' = 1
    /\ fatal' = "interrupt"
    /\ closes' = IF runner = "ecommerce" THEN [closes EXCEPT ![site] = @ + 1]
                                         ELSE closes
    /\ soup' = NoPage
    /\ item_idx' = 0
    /\ last_item' = NoItem
    /\ UNCHANGED <<cmd, site, max_pages, page_num, current_url, results, seen_urls,
                   data, raised, gotos, stop, sleeps, nav, save_calls, written>>
    /\ UNCHANGED <<filterVars, helperVars, newsVars, runner, started, ended, failed>>

\* the order of run_all
NextRunner(r) ==
    CASE r = "ecommerce" -> "jobs"
      [] r = "jobs"      -> "news"
      [] r = "news"      -> "realestate"

\* a main that reports a run without written records as a failure
ExitFailsOnEmpty ==
    /\ pc = "done"
    /\ cmd = "all" => runner = "realestate"
    /\ pc' = "exit"
    /\ exit_code' = IF written = <<>> THEN 1 ELSE 0
    /\ UNCHANGED <<cmd, site, max_pages, page_num, current_url, soup, item_idx,
                   results, seen_urls, data, raised, gotos, stop, sleeps, closes,
                   nav, last_item, save_calls, written>>
    /\ UNCHANGED <<filterVars, helperVars, newsVars, runner, fatal, started, ended, failed>>

\* main after asyncio.run returned: the process ends with status 0
Exit ==
    /\ pc = "done"
    /\ cmd = "all" => runner = "realestate"
    /\ pc' = "exit"
    /\ exit_code' = 0
    /\ UNCHANGED <<cmd, site, max_pages, page_num, current_url, soup, item_idx,
                   results, seen_urls, data, raised, gotos, stop, sleeps, closes,
                   nav, last_item, save_calls, written>>
    /\ UNCHANGED <<filterVars, helperVars, newsVars, runner, fatal, started, ended, failed>>

\* run_all after a runner returned: its scraper object goes out of scope and
\* the next runner is awaited
RunAllNext ==
    /\ cmd = "all" /\ pc = "done" /\ runner # "realestate"
    /\ runner' = NextRunner(runner)
    /\ pc' = "start"
    /\ site' = "-"
    /\ page_num' = 0
    /\ current_url' = <<>>
    /\ soup' = NoPage
    /\ item_idx' = 0
    /\ results' = <<>>
    /\ seen_urls' = {}
    /\ data' = <<>>
    /\ raised' = FALSE
    /\ gotos' = [s \in Sites |-> 0]
    /\ stop' = [s \in Sites |-> "-"]
    /\ sleeps' = [s \in Sites |-> 0]
    /\ closes' = [s \in Sites |-> 0]
    /\ nav' = [s \in Sites |-> "-"]
    /\ last_item' = NoItem
    /\ save_calls' = 0
    /\ written' = <<>>
    /\ tpc' = [src \in Sources |-> "-"]
    /\ requests' = [src \in Sources |-> 0]
    /\ nlast' = [src \in Sources |-> "-"]
    /\ nresult' = [src \in Sources |-> "-"]
    /\ served' = [src \in Sources |-> 0]
    /\ UNCHANGED <<cmd, max_pages, max_retries, exit_code, fatal, started, ended, failed>>
    /\ UNCHANGED <<filterVars, helperVars>>

Next ==
    \/ RunEcommerce
    \/ \E s \in Sites : Launch(s)
    \/ \E s \in Sites : ForExhausted(s)
    \/ \E s \in Sites : SafeGoto(s)
    \/ \E s \in Sites : PageContent(s)
    \/ \E s \in Sites : Item(s)
    \/ \E s \in Sites : Paginate(s)
    \/ \E s \in Sites : Finally(s)
    \/ AfterScrape
    \/ SaveResults
    \/ RunSinglePage
    \/ LaunchSinglePage
    \/ GetPageContent
    \/ JobItem
    \/ PropertyItem
    \/ CloseSinglePage
    \/ AfterSinglePage
    \/ SaveData
    \/ RunNews
    \/ \E src \in Sources : NewsRequest(src)
    \/ NewsGather
    \/ SaveNewsData
    \/ Interrupt
    \/ Exit

Spec == Init /\ [][Next]_vars

\* pages=2 of the arguments run_all builds for run_ecommerce
AllPages == 2

\* main() with the command "all"; MAX_RETRIES is 1, one attempt per source
InitAll ==
    /\ cmd = "all"
    /\ runner = "ecommerce"
    /\ max_pages = AllPages
    /\ max_retries = 1
    /\ Started

NextAll == Next \/ RunAllNext

SpecAll == InitAll /\ [][NextAll]_vars

----------------------------------------------------------------------------
(* Properties *)

\* the records of one site in a record list
OfSite(s, res) == {i \in 1..Len(res) : res[i].platform = Str(platform(s))}

NavFailed(s) == nav[s] \in {"timeout", "net_error"}

\* C1: in one run of scrape_amazon or scrape_flipkart on a scraper constructed
\* with max_pages = N, at most N calls of safe_goto are made, and none at all
\* when N <= 0.
C1_FetchesBoundedByMaxPages ==
    \A s \in Sites : gotos[s] <= (IF max_pages > 0 THEN max_pages ELSE 0)

\* both sites were fetched max_pages times, for the largest max_pages
C1_Witness ==
    /\ max_pages = MaxPages
    /\ \A s \in Sites : gotos[s] = max_pages

\* C2: results never holds two records with the same platform and the same url.
C2_NoTwoRecordsSameUrl ==
    \A i, j \in 1..Len(results) :
        i # j => ~(/\ results[i].platform = results[j].platform
                   /\ results[i].url = results[j].url)

\* C3: when a container resolves to a URL that an earlier container of the run
\* resolved to, exactly one record with that URL has been produced, whatever
\* happened while the remaining fields of the earlier container were extracted.
C3_ExactlyOneRecordPerUrl ==
    (site \in Sites /\ last_item.outcome = "duplicate") =>
        Cardinality({i \in OfSite(site, results) :
                        unique_key(site, results[i].url.v) = last_item.key}) = 1

\* C4: when page.goto fails (timeout or network error) safe_goto returns False
\* without raising, the page loop leaves for its end without a further fetch,
\* and the records collected so far stay in results.
C4_NavFailureEndsLoop ==
    [][\A s \in Sites :
          /\ (gotos'[s] # gotos[s] /\ NavFailed(s)')
                => (~raised' /\ pc' = "finally" /\ results' = results)
          /\ NavFailed(s)
                => /\ gotos'[s] = gotos[s]
                   /\ OfSite(s, results') = OfSite(s, results)
                   /\ Len(results') >= Len(results)]_vars

\* the navigation to Amazon's page 2 timed out, and the run ended with the
\* record of page 1 in results and written
C4_Witness ==
    /\ pc = "done"
    /\ nav["Amazon"] = "timeout"
    /\ gotos["Amazon"] = 2
    /\ OfSite("Amazon", results) # {}
    /\ written # <<>>

\* C5: a fetched page that holds the CAPTCHA marker text ends the page loop at
\* once, on Amazon and on Flipkart: the container loop is never entered for it.
C5_HardBlockEndsLoop ==
    (site \in Sites /\ pc = "items") => ~soup.captcha

\* C6: a fetched page with zero containers ends the page loop right after that
\* fetch: no record is added by it or after it, no exception is raised, no
\* further page is fetched, and the run still ends with save_results called.
C6_EmptyPageEndsLoop ==
    [][/\ \A s \in Sites :
            /\ (/\ site = s /\ pc = "content" /\ pc' # "content"
                /\ ~raised' /\ fatal' = "-" /\ soup'.n = 0)
                  => /\ pc' = "finally"
                     /\ results' = results
                     /\ gotos'[s] = page_num
                     /\ page_num <= max_pages
            /\ stop[s] = "no_items"
                  => /\ gotos'[s] = gotos[s]
                     /\ OfSite(s, results') = OfSite(s, results)
                     /\ Len(results') >= Len(results)
                     /\ (site' = s => ~raised')
       /\ (runner = "ecommerce" /\ pc' = "done") => save_calls' = 1]_vars

\* Amazon's page 2 was the first without containers: two fetches, the record of
\* page 1 in results, and the run ended with the save
C6_Witness ==
    /\ pc = "done"
    /\ stop["Amazon"] = "no_items"
    /\ gotos["Amazon"] = 2
    /\ OfSite("Amazon", results) # {}
    /\ save_calls = 1
    /\ written # <<>>

\* C7: an exception raised while one container is processed skips only that
\* container: the loop goes on to the next container, results and data keep
\* their records, nothing is raised out of the loop, and the loop is left only
\* when every container of the page has been processed.
C7_ItemErrorSkipsOnlyItem ==
    [][/\ (pc = "items" /\ item_idx <= soup.n /\ last_item'.outcome = "error")
             => /\ pc' = "items"
                /\ item_idx' = item_idx + 1
                /\ results' = results
                /\ data' = data
                /\ ~raised'
       /\ (pc = "items" /\ pc' \notin {"items", "exit"}) => item_idx > soup.n]_vars

\* on Amazon's page 1 one container raised after its key was recorded, and the
\* other container of the page was still processed and appended
C7_Witness ==
    /\ site = "Amazon" /\ pc = "items" /\ page_num = 1
    /\ item_idx = 3
    /\ last_item.outcome = "appended"
    /\ Cardinality(seen_urls) = 2
    /\ Len(results) = 1

\* the validator a sink is expected to use
SinkKind ==
    CASE runner = "ecommerce"  -> "product"
      [] runner = "jobs"       -> "job"
      [] runner = "realestate" -> "realestate"
      [] OTHER              -> "news"

\* C8: every record a scraper's sink writes has non-empty required fields for
\* its kind and, for products and news, a URL-shaped url/link.
C8_PersistedRecordsValid ==
    \A i \in 1..Len(written) :
        /\ \A k \in RequiredKeys(SinkKind) :
              k \in DOMAIN written[i] /\ Truthy(written[i][k])
        /\ SinkKind = "product" => validate_url(written[i].url)
        /\ SinkKind = "news" => validate_url(written[i].link)

\* C9: filter_valid_data returns, in input order, exactly the records that pass
\* the validator once every string field is sanitised; the number dropped is
\* len(input) - len(output); the ten-record example gives seven.
C9_FilterKeepsExactlyValid ==
    fpc = "returned" =>
        LET sanitized == [i \in 1..Len(data_input) |-> SanitizeItem(data_input[i])]
            failing   == {i \in 1..Len(data_input) :
                             ~Validate(validator_func, sanitized[i])}
        IN  /\ valid_data = SelectSeq(sanitized, LAMBDA r : Validate(validator_func, r))
            /\ Len(data_input) - Len(valid_data) = Cardinality(failing)
            /\ data_list = sanitized
            /\ data_input = ExampleTen => Len(valid_data) = 7

\* the ten-record example went through the filter
C9_Witness ==
    /\ fpc = "returned"
    /\ validator_func = "product"
    /\ data_input = ExampleTen
    /\ Len(valid_data) = 7

\* C10: a validator returns False whenever one of its required keys is absent
\* or holds an empty value, so no record it accepted has such a key.
C10_ValidatorRejectsEmptyRequired ==
    fpc = "returned" =>
        \A i \in 1..Len(valid_data) :
            \A k \in RequiredKeys(validator_func) :
                k \in DOMAIN valid_data[i] /\ Truthy(valid_data[i][k])

\* the records of one news source in data
OfSource(src, d) == {i \in 1..Len(d) : d[i].source = Str(source_name(src))}

\* the ceiling of attempts that tenacity applies: the first attempt is always made
Ceiling == IF max_retries > 1 THEN max_retries ELSE 1

\* C11: _fetch_with_retry does not retry a 4xx status: once a request of a
\* source got a 4xx status, no further request is made for that call and the
\* error is what the call raised.
C11_NoRetryOnClientError ==
    [][\A src \in Sources :
          nlast[src] = "4xx"
             => (requests'[src] = requests[src] /\ nresult[src] = "4xx")]_vars

\* C12 (as stated): the requests of one call never exceed config.max_retries.
C12_RequestsAtMostMaxRetries ==
    \A src \in Sources : requests[src] <= max_retries

\* C12 (amended): one call of _fetch_with_retry makes at most
\* max(1, max_retries) requests; when it raised, every attempt up to that
\* ceiling failed and the error raised is the last one; a request that
\* succeeded is the last request of the call.
C12_RequestsBoundedByCeiling ==
    \A src \in Sources :
        /\ requests[src] <= Ceiling
        /\ nresult[src] \in {"4xx", "5xx", "timeout"}
              => (nresult[src] = nlast[src] /\ requests[src] = Ceiling)
        /\ nlast[src] = "ok" => tpc[src] = "done"

\* with the largest ceiling, one source failed on every attempt with a timeout
\* last, and another succeeded on its second attempt
C12_Witness ==
    /\ max_retries = MaxRetries
    /\ nresult["toi"] = "timeout" /\ requests["toi"] = MaxRetries
    /\ nresult["hindu"] = "ok" /\ requests["hindu"] = 2

\* C13: run() returns only after the three source tasks have finished; a task
\* ends only through its own request, whatever became of the others; nothing
\* is raised out of run(); and data holds exactly the headlines served to the
\* sources that succeeded.
C13_GatherWaitsAndTolerates ==
    [][/\ (runner' = "news" /\ (pc' \in {"return", "save", "done"}
                                  \/ (pc' = "exit" /\ fatal' = "-")))
             => \A src \in Sources : tpc'[src] = "done"
       /\ runner' = "news" => (~raised' /\ "news" \notin failed')
       /\ \A src \in Sources :
             (tpc[src] = "fetch" /\ tpc'[src] # "fetch")
                => (tpc'[src] = "done" /\ requests'[src] = requests[src] + 1)
       /\ (runner' = "news" /\ pc' \in {"gather", "return"})
             => \A src \in Sources :
                   Cardinality(OfSource(src, data')) =
                       (IF nresult'[src] = "ok" THEN served'[src] ELSE 0)]_vars

\* run() returned with the headlines of one source in data while the second
\* source failed on every attempt and the third could not be parsed
C13_Witness ==
    /\ runner = "news" /\ pc = "return"
    /\ nresult["hindu"] = "timeout"
    /\ nresult["ndtv"] = "parse"
    /\ nresult["toi"] = "ok" /\ served["toi"] >= 1
    /\ Len(data) = served["toi"]

\* the scrape routines of the master CLI, in the order of run_all
AllScrapers == {"Amazon", "Flipkart", "jobs", "news", "realestate"}

\* C14: when a runner has returned after its scrape routine collected records
\* and then raised, the sink's save routine was called with those records.
C14_SaveCalledAfterFailure ==
    (pc = "done" /\ (results # <<>> \/ data # <<>>)) => save_calls >= 1

\* C15: in run_all and run_ecommerce an exception of one scrape routine is
\* handled by its runner: the run goes on with the next scraper, no such
\* exception reaches main, and a run that is not interrupted ends with every
\* scraper started and ended.
C15_FailureNeverStopsLaterScrapers ==
    [][/\ (pc = "return" /\ raised)
             => (~raised' /\ pc' \in {"launch", "save", "done", "exit"})
       /\ fatal' \in {"-", "interrupt", "save"}
       /\ (failed # {} /\ fatal' = "-" /\ pc = "done" /\ pc' # "exit")
             => (pc' = "start" /\ runner' = NextRunner(runner))
       /\ (pc' = "exit" /\ fatal' = "-")
             => (started' = AllScrapers /\ ended' = AllScrapers)]_vars

\* every scraper that can raise did, and the run still ended with all five
\* scrapers started and ended
C15_Witness ==
    /\ cmd = "all" /\ pc = "exit" /\ exit_code = 0
    /\ failed = {"Amazon", "Flipkart", "jobs", "realestate"}
    /\ ended = AllScrapers

\* C16: when the user interrupts a scraper in its loop, the records collected
\* up to then are handed to the sink's save routine before the process exits.
C16_InterruptStillSaves ==
    (fatal = "interrupt" /\ (results # <<>> \/ data # <<>>)) => save_calls >= 1

\* C17: main exits with status 0 when the selected runner returned, also when
\* scrapers failed inside it or nothing was collected or written, and with
\* status 1 when an exception or the user's interrupt reached main.
C17_ExitCode ==
    /\ pc = "exit" => exit_code = (IF fatal = "-" THEN 0 ELSE 1)
    /\ pc # "exit" => (exit_code = -1 /\ fatal = "-")
    /\ (pc = "exit" /\ exit_code = 0) => ended # {}

\* the news run collected headlines, none of them valid, wrote nothing and
\* exited with status 0
C17_Witness ==
    /\ runner = "news" /\ pc = "exit" /\ exit_code = 0
    /\ data # <<>> /\ written = <<>> /\ save_calls = 1

\* C18: the Seen-URL set is empty whenever a scrape routine starts.
C18_SeenUrlsEmptyAtScrapeStart ==
    (runner = "ecommerce" /\ pc = "launch") => seen_urls = {}

\* C19: data of the job, news or real-estate scraper never holds two records
\* with the same link.
C19_AtMostOneRecordPerLink ==
    runner \in {"jobs", "news", "realestate"} =>
        \A i, j \in 1..Len(data) : i # j => data[i].link # data[j].link

\* C20: the inter-page delay is taken only when the configured page count has
\* not been reached, so that a fetch of the next URL follows it.
C20_DelayOnlyBeforeFetch ==
    [][\A s \in Sites :
          sleeps'[s] # sleeps[s] => InRange(page_num', max_pages)]_vars

----------------------------------------------------------------------------
(* The helpers of src/common/utils.py *)

\* the helper call of the behaviour has returned
Returned(f) == func = f /\ ret # Pending

\* the positions of the selector list at which the selector finds a node
\* whose value is not empty once trimmed
Matching(element, selectors) ==
    LET nonempty(found) ==
            found # Raise /\ IsTag(found) /\ StripSpace(found.text) # <<>>
    IN  {k \in 1..Len(selectors) : nonempty(select_one(element, selectors[k]))}

\* C21: extract_text and extract_attr (and _extract_text) return the value of
\* the first selector of the list whose match has a non-empty value after
\* trimming, whatever its position k; selectors that raise or match an empty
\* value are skipped; when no selector matches the result is None; no
\* exception is raised.
C21_FirstNonEmptyMatch ==
    (/\ func \in {"extract_text", "extract_attr", "_extract_text"}
     /\ ret # Pending
     /\ func = "extract_text" => args.strip)
    => LET K == Matching(args.element, args.selectors)
           value(k) == select_one(args.element, args.selectors[k]).text
           first == CHOOSE k \in K : \A other \in K : k <= other
       IN  /\ ret # Raise
           /\ IF K = {} THEN ret = None
              ELSE ret \in {Str(value(first)), Str(StripSpace(value(first)))}

\* C22: the result of truncate_text is never longer than max_length, and a
\* text that is not longer than max_length is returned unchanged.
C22_TruncateWithinMaxLength ==
    Returned("truncate_text")
    => /\ Len(ret.v) <= args.max_length
       /\ Len(args.text) <= args.max_length => ret.v = args.text

\* C23: the result of sanitize_filename is not longer than max_length, holds
\* only lower-case letters, digits, underscores and hyphens, and is a fixed
\* point of sanitize_filename with the same max_length.
C23_SanitizeFilenameSafe ==
    Returned("sanitize_filename")
    => /\ Len(ret.v) <= args.max_length
       /\ \A i \in 1..Len(ret.v) :
             ret.v[i] \in {"a", "b", "_", "-"} \/ IsDigit(ret.v[i])
       /\ sanitize_filename(ret.v, args.max_length) = ret.v

RECURSIVE Decimal(_)
\* the decimal digits of a natural number, most significant first
Decimal(n) ==
    IF n < 10 THEN <<CHOOSE c \in {"0", "1", "2", "3", "4", "5", "6", "7", "8", "9"} :
                        DigitValue(c) = n>>
    ELSE Decimal(n \div 10) \o Decimal(n % 10)

RECURSIVE ZeroPad(_, _)
\* digits with zeros put in front up to a width
ZeroPad(digits, width) ==
    IF Len(digits) >= width THEN digits ELSE ZeroPad(<<"0">> \o digits, width)

----------------------------------------------------------------------------
(* auto_scroll *)

\* C27: auto_scroll evaluates window.scrollBy at most max_scrolls times; two
\* heights measured one after the other are equal only at the step that ends
\* the loop; no exception leaves auto_scroll, also when an evaluation fails;
\* and the call returns.
C27_AutoScrollBoundedAndQuiet ==
    /\ [](/\ scrolls <= max_scrolls
          /\ \A k \in 2..Len(heights) :
                heights[k] = heights[k - 1] => (k = Len(heights) /\ spc = "returned")
          /\ ~scroll_raised)
    /\ <>(spc \in {"idle", "returned"})

\* the height stopped growing before max_scrolls was used up, and the call
\* returned at that step
C27_Witness ==
    /\ spc = "returned"
    /\ Len(heights) >= 2
    /\ heights[Len(heights)] = heights[Len(heights) - 1]
    /\ scrolls = Len(heights)
    /\ scrolls < max_scrolls

----------------------------------------------------------------------------
(* The record list and its tasks *)

\* C25: the record list of a scraper instance is read and appended to by one
\* task only: of the tasks that run concurrently (the three source tasks that
\* run() hands to gather), at most one has appended to data.
C25_RecordListSingleTask ==
    runner = "news" => Cardinality({src \in Sources : served[src] > 0}) <= 1

\* C29: the records one source task appended lie next to each other in data:
\* no record of another source lies between two records of the same source.
C29_SourceBlocksContiguous ==
    runner = "news" =>
        \A i, k \in 1..Len(data) :
            (i < k /\ data[i].source = data[k].source) =>
                \A j \in i..k : data[j].source = data[i].source

\* two source tasks appended two records each
C29_Witness ==
    /\ runner = "news"
    /\ Len(data) = 4
    /\ \E a, b \in Sources : a # b /\ served[a] = 2 /\ served[b] = 2

----------------------------------------------------------------------------
(* The page loop of the e-commerce scrapers: pagination, browser, bookkeeping *)

\* C26: at the end of the container loop of a page, whatever became of its
\* containers (records appended, or every container skipped as a duplicate,
\* for a missing title or link, or for an error), the loop moves to the next
\* page number when the page has a next link with an href and ends when it
\* has none; at the head of the loop the next fetch depends on the page count
\* alone.
C26_PaginationIgnoresItems ==
    \A s \in Sites :
        /\ (pc = "items" /\ site = s /\ item_idx > soup.n) =>
              /\ ENABLED (/\ Paginate(s)
                          /\ pc' = "for"
                          /\ page_num' = page_num + 1
                          /\ results' = results)
              /\ ENABLED (Paginate(s) /\ stop'[s] = "no_next")
        /\ (pc = "for" /\ site = s) =>
              (ENABLED SafeGoto(s) <=> InRange(page_num, max_pages))

\* the first Amazon page had containers and gave no record, and the second
\* page was fetched
C26_Witness ==
    /\ site = "Amazon"
    /\ pc = "content"
    /\ gotos["Amazon"] = 2
    /\ sleeps["Amazon"] = 1
    /\ results = <<>>

ResultsKeyed ==
    /\ \A i \in 1..Len(results) :
          (results[i].platform.v \o <<"_">> \o results[i].url.v) \in seen_urls
    /\ Len(results) <= Cardinality(seen_urls)

\* the step keeps every entry of results in its place and every key of
\* seen_urls
ResultsGrow ==
    /\ Len(results) <= Len(results')
    /\ SubSeq(results', 1, Len(results)) = results
    /\ seen_urls \subseteq seen_urls'

====
